---- MODULE Spec2Model ----
(***************************************************************************)
(* Model of the LangChain starter template:                                 *)
(*   - ModelManager (src/src/models/ModelManager.ts): the initialization    *)
(*     flag and the three handles, with initialize, reinitialize,           *)
(*     testConnection and the accessors;                                    *)
(*   - LangChainStarter.testAgent (src/src/index.ts): the two-node agent    *)
(*     graph (agent, tools) and the two-turn demonstration that drives it.  *)
(* Spec is the manager under arbitrary sequences of calls; AgentSpec is the *)
(* demonstration run of testAgent.                                          *)
(***************************************************************************)
EXTENDS Integers, Sequences, FiniteSets, TLC

VARIABLES
    config,        \* ModelManager.config: the configuration held by the manager
    initialized,   \* ModelManager.initialized
    chatModel,     \* ModelManager.chatModel: Null or the identity of a ChatOpenAI
    embeddings,    \* ModelManager.embeddings: Null or the identity of an OpenAIEmbeddings
    textSplitter,  \* ModelManager.textSplitter: Null or the identity of a splitter
    nextId,        \* number of objects constructed so far (object identities are 1..nextId)
    probe,         \* chat model a suspended testConnection() is awaiting, or Null
    pending,       \* initialize()/reinitialize() calls whose caller has not resumed yet
    lastOp,        \* the operation that ran last
    lastInput,     \* what the environment did in it (constructor that threw, remote outcome)
    lastResult,    \* how it ended: "ok", "true", "false", "pending" or "throw:<error>"
    lastValue,     \* the handle it returned (Null when it returned none)
    lastLogs,      \* the log levels it wrote, in order
    pc,            \* position of testAgent
    node,          \* node of the agent graph the run is at
    messages,      \* the messages channel of the running graph
    nextMsgId,     \* number of message ids handed out so far
    nextCallId,    \* number of tool call ids handed out so far
    agentSteps,    \* agent steps of the current run
    toolSteps,     \* tools steps of the current run
    script,        \* what the chat model answered in the current run, in order
    done,          \* tool calls of the latest tools step, in the order they completed
    input,         \* the messages the current run was invoked with
    firstOutput,   \* response.messages of the first invoke
    exitCode,      \* process exit status ("none" while running)
    plan           \* the scripted chat client's plan (used by LoopSpec)

mgrVars == <<config, initialized, chatModel, embeddings, textSplitter, nextId, probe,
             pending, lastOp, lastInput, lastResult, lastValue, lastLogs>>
agentVars == <<pc, node, messages, nextMsgId, nextCallId, agentSteps, toolSteps,
               script, done, input, firstOutput, exitCode, plan>>
vars == <<mgrVars, agentVars>>

\* ---------------------------------------------------------------- bounds
\* Objects the manager may construct in one behaviour.
MaxObjects == 9
\* Agent steps the model takes in one run of the graph (the graph has no bound).
MaxAgentSteps == 3
\* Tool calls one model answer may carry.
MaxToolCalls == 2
\* initialize()/reinitialize() calls that may be in flight together.
MaxPending == 2
\* Tool rounds the scripted chat client of LoopSpec may plan.
MaxRounds == 6

\* ---------------------------------------------------------------- ModelManager
\* `null`: the value of an unset handle (ModelManager.ts:14-16).
Null == 0

\* The configuration objects a manager may be constructed with (identities,
\* distinct from every handle's).
Configs == {-1, -2}

\* Which constructor call of initialize() throws, if any.
Failures == {"none", "chat", "embeddings", "splitter"}

\* What the remote chat service does with the connection probe.
RemoteOutcomes == {"content", "empty", "null", "reject"}

\* The manager's fields as one record.
Manager ==
    [initialized |-> initialized, chatModel |-> chatModel, embeddings |-> embeddings,
     textSplitter |-> textSplitter, nextId |-> nextId]

\* `new X(...)`: the identity of the next constructed object.
New(m) == m.nextId + 1

\* Mutant of InitializeOn: the flag is set before the handles are constructed.
InitializeOnFlagFirst(m, fail) ==
    IF m.initialized
    THEN [m |-> m, result |-> "ok", logs |-> <<"warn">>]
    ELSE LET m0 == [m EXCEPT !.initialized = TRUE] IN
         IF fail = "chat"
         THEN [m |-> m0, result |-> "throw:construct", logs |-> <<"error">>]
         ELSE LET m1 == [m0 EXCEPT !.chatModel = New(m0), !.nextId = New(m0)] IN
              IF fail = "embeddings"
              THEN [m |-> m1, result |-> "throw:construct", logs |-> <<"error">>]
              ELSE LET m2 == [m1 EXCEPT !.embeddings = New(m1), !.nextId = New(m1)] IN
                   IF fail = "splitter"
                   THEN [m |-> m2, result |-> "throw:construct", logs |-> <<"error">>]
                   ELSE [m |-> [m2 EXCEPT !.textSplitter = New(m2), !.nextId = New(m2)],
                         result |-> "ok", logs |-> <<>>]

\* Mutant of InitializeOn: the already-initialized guard is missing.
InitializeOnNoGuard(m, fail) ==
    IF fail = "chat"
    THEN [m |-> m, result |-> "throw:construct", logs |-> <<"error">>]
    ELSE LET m1 == [m EXCEPT !.chatModel = New(m), !.nextId = New(m)] IN
         IF fail = "embeddings"
         THEN [m |-> m1, result |-> "throw:construct", logs |-> <<"error">>]
         ELSE LET m2 == [m1 EXCEPT !.embeddings = New(m1), !.nextId = New(m1)] IN
              IF fail = "splitter"
              THEN [m |-> m2, result |-> "throw:construct", logs |-> <<"error">>]
              ELSE [m |-> [m2 EXCEPT !.textSplitter = New(m2), !.nextId = New(m2),
                                     !.initialized = TRUE],
                    result |-> "ok", logs |-> <<>>]

\* initialize() on manager m, where constructor `fail` throws: the manager it
\* leaves, how the call ends and what it logs.  The body has no await, so it
\* runs to completion in one step.
InitializeOn(m, fail) ==
    IF m.initialized
    THEN \* already initialized: warn and return
         [m |-> m, result |-> "ok", logs |-> <<"warn">>]
    ELSE IF fail = "chat"
         THEN [m |-> m, result |-> "throw:construct", logs |-> <<"error">>]
         ELSE LET m1 == [m EXCEPT !.chatModel = New(m), !.nextId = New(m)] IN
              IF fail = "embeddings"
              THEN [m |-> m1, result |-> "throw:construct", logs |-> <<"error">>]
              ELSE LET m2 == [m1 EXCEPT !.embeddings = New(m1), !.nextId = New(m1)] IN
                   IF fail = "splitter"
                   THEN [m |-> m2, result |-> "throw:construct", logs |-> <<"error">>]
                   ELSE [m |-> [m2 EXCEPT !.textSplitter = New(m2), !.nextId = New(m2),
                                          !.initialized = TRUE],
                         result |-> "ok", logs |-> <<>>]

\* Mutant of ReinitializeOn: the flag is not cleared before initialize() runs.
ReinitializeOnKeepFlag(m, fail) ==
    InitializeOn([m EXCEPT !.chatModel = Null, !.embeddings = Null,
                           !.textSplitter = Null], fail)

\* Mutant of ReinitializeOn: the flag is cleared but the handles are kept until
\* initialize() replaces them.
ReinitializeOnKeepHandles(m, fail) ==
    InitializeOn([m EXCEPT !.initialized = FALSE], fail)

\* Mutant of ReinitializeOn: the call returns to its caller after clearing the
\* fields, the construction being left for a later turn.
ReinitializeOnDeferred(m, fail) ==
    [m |-> [m EXCEPT !.initialized = FALSE, !.chatModel = Null,
                     !.embeddings = Null, !.textSplitter = Null],
     result |-> "ok", logs |-> <<>>]

\* reinitialize(): clear the flag and the three handles, then initialize().
ReinitializeOn(m, fail) ==
    InitializeOn([m EXCEPT !.initialized = FALSE, !.chatModel = Null,
                           !.embeddings = Null, !.textSplitter = Null], fail)

\* Mutant of Accessor: the check of the flag is missing.
AccessorNoFlagCheck(m, handle, missing) ==
    IF handle = Null
    THEN [result |-> missing, value |-> Null, logs |-> <<>>]
    ELSE [result |-> "ok", value |-> handle, logs |-> <<"debug">>]

\* Mutant of Accessor: the handle is checked before the flag.
AccessorHandleFirst(m, handle, missing) ==
    IF handle = Null
    THEN [result |-> missing, value |-> Null, logs |-> <<>>]
    ELSE IF ~m.initialized
         THEN [result |-> "throw:ModelManager must be initialized before use",
               value |-> Null, logs |-> <<>>]
         ELSE [result |-> "ok", value |-> handle, logs |-> <<"debug">>]

\* The body shared by getChatModel(), getEmbeddings() and getTextSplitter():
\* the flag is checked first, then the handle.
Accessor(m, handle, missing) ==
    IF ~m.initialized
    THEN [result |-> "throw:ModelManager must be initialized before use",
          value |-> Null, logs |-> <<>>]
    ELSE IF handle = Null
         THEN [result |-> missing, value |-> Null, logs |-> <<>>]
         ELSE [result |-> "ok", value |-> handle, logs |-> <<"debug">>]

GetChatModelOn(m) == Accessor(m, m.chatModel, "throw:Chat model not initialized")
GetEmbeddingsOn(m) == Accessor(m, m.embeddings, "throw:Embeddings model not initialized")
GetTextSplitterOn(m) == Accessor(m, m.textSplitter, "throw:Text splitter not initialized")

\* isInitialized()
IsInitialized == initialized

\* Mutant of TestConnectionStart: the not-initialized error escapes the call.
TestConnectionStartUncaught(m) ==
    IF ~m.initialized \/ m.chatModel = Null
    THEN [result |-> "throw:ModelManager must be initialized before testing connection",
          probe |-> Null, logs |-> <<"info">>]
    ELSE [result |-> "pending", probe |-> m.chatModel, logs |-> <<"info">>]

\* testConnection() up to its await: the not-initialized error is thrown and
\* caught inside the call, which then returns false; otherwise the probe is
\* sent to the chat model and the call suspends.
TestConnectionStart(m) ==
    IF ~m.initialized \/ m.chatModel = Null
    THEN [result |-> "false", probe |-> Null, logs |-> <<"info", "error">>]
    ELSE [result |-> "pending", probe |-> m.chatModel, logs |-> <<"info">>]

\* testConnection() from its await on: a response with content gives true; a
\* rejected call, a null response and a response without content are caught.
TestConnectionFinish(outcome) ==
    IF outcome = "content"
    THEN [result |-> "true", logs |-> <<"info">>]
    ELSE [result |-> "false", logs |-> <<"error">>]

\* ---------------------------------------------------------------- manager actions
SetManager(m) ==
    /\ initialized' = m.initialized
    /\ chatModel' = m.chatModel
    /\ embeddings' = m.embeddings
    /\ textSplitter' = m.textSplitter
    /\ nextId' = m.nextId

Report(op, in, result, value, logs) ==
    /\ lastOp' = op
    /\ lastInput' = in
    /\ lastResult' = result
    /\ lastValue' = value
    /\ lastLogs' = logs

\* Room to construct three more objects.
CanConstruct == nextId + 3 <= MaxObjects

\* A call joins the calls in flight: it is now the latest one, and `built`
\* tells whether it constructed anything.
Started(op, result, built) ==
    Append([k \in 1..Len(pending) |-> [pending[k] EXCEPT !.latest = FALSE]],
           [op |-> op, result |-> result, built |-> built, latest |-> TRUE])

\* A caller runs initialize() up to the point where it awaits the promise: the
\* whole body has run by then.
Initialize(fail) ==
    /\ initialized \/ CanConstruct
    /\ Len(pending) < MaxPending
    /\ LET r == InitializeOn(Manager, fail) IN
         /\ SetManager(r.m)
         /\ Report("initialize", fail, r.result, Null, r.logs)
         /\ pending' = Started("initialize", r.result, r.m.nextId # nextId)
    /\ UNCHANGED <<config, probe, agentVars>>

\* A caller runs reinitialize() up to the point where it awaits the promise:
\* the fields are cleared and the body of initialize() has run; what is left
\* of reinitialize() after its own await changes nothing.
Reinitialize(fail) ==
    /\ CanConstruct
    /\ Len(pending) < MaxPending
    /\ LET r == ReinitializeOn(Manager, fail) IN
         /\ SetManager(r.m)
         /\ Report("reinitialize", fail, r.result, Null, r.logs)
         /\ pending' = Started("reinitialize", r.result, r.m.nextId # nextId)
    /\ UNCHANGED <<config, probe, agentVars>>

\* The caller of the i-th call in flight resumes with the call's outcome.
Settle(i) ==
    /\ i \in 1..Len(pending)
    /\ pending' = [k \in 1..(Len(pending) - 1) |->
                      IF k < i THEN pending[k] ELSE pending[k + 1]]
    /\ Report("settled", pending[i].op, pending[i].result, Null, <<>>)
    /\ UNCHANGED <<config, initialized, chatModel, embeddings, textSplitter, nextId,
                   probe, agentVars>>

TestConnection ==
    /\ probe = Null
    /\ LET r == TestConnectionStart(Manager) IN
         /\ probe' = r.probe
         /\ Report("testConnection", "none", r.result, Null, r.logs)
    /\ UNCHANGED <<config, pending, initialized, chatModel, embeddings, textSplitter, nextId,
                   agentVars>>

TestConnectionResume(outcome) ==
    /\ probe # Null
    /\ LET r == TestConnectionFinish(outcome) IN
         /\ probe' = Null
         /\ Report("testConnection", outcome, r.result, Null, r.logs)
    /\ UNCHANGED <<config, pending, initialized, chatModel, embeddings, textSplitter, nextId,
                   agentVars>>

GetConfig ==
    /\ Report("getConfig", "none", "ok", config, <<>>)
    /\ UNCHANGED <<config, pending, initialized, chatModel, embeddings, textSplitter, nextId,
                   probe, agentVars>>

IsInitializedCall ==
    /\ Report("isInitialized", "none", IF IsInitialized THEN "true" ELSE "false",
              Null, <<>>)
    /\ UNCHANGED <<config, pending, initialized, chatModel, embeddings, textSplitter, nextId,
                   probe, agentVars>>

\* Mutant of GetChatModel: a missing chat model is constructed on demand.
GetChatModelLazy ==
    /\ IF chatModel = Null /\ nextId < MaxObjects
       THEN /\ chatModel' = nextId + 1
            /\ nextId' = nextId + 1
            /\ Report("getChatModel", "none", "ok", nextId + 1, <<"debug">>)
       ELSE /\ LET r == GetChatModelOn(Manager) IN
                 Report("getChatModel", "none", r.result, r.value, r.logs)
            /\ UNCHANGED <<chatModel, nextId>>
    /\ UNCHANGED <<config, pending, initialized, embeddings, textSplitter, probe,
                   agentVars>>

GetChatModel ==
    /\ LET r == GetChatModelOn(Manager) IN
         Report("getChatModel", "none", r.result, r.value, r.logs)
    /\ UNCHANGED <<config, pending, initialized, chatModel, embeddings, textSplitter, nextId,
                   probe, agentVars>>

GetEmbeddings ==
    /\ LET r == GetEmbeddingsOn(Manager) IN
         Report("getEmbeddings", "none", r.result, r.value, r.logs)
    /\ UNCHANGED <<config, pending, initialized, chatModel, embeddings, textSplitter, nextId,
                   probe, agentVars>>

GetTextSplitter ==
    /\ LET r == GetTextSplitterOn(Manager) IN
         Report("getTextSplitter", "none", r.result, r.value, r.logs)
    /\ UNCHANGED <<config, pending, initialized, chatModel, embeddings, textSplitter, nextId,
                   probe, agentVars>>

\* The manager as constructed (ModelManager.ts:13-21).
MgrInit ==
    /\ config \in Configs
    /\ initialized = FALSE
    /\ chatModel = Null
    /\ embeddings = Null
    /\ textSplitter = Null
    /\ nextId = 0
    /\ probe = Null
    /\ pending = <<>>
    /\ lastOp = "new"
    /\ lastInput = "none"
    /\ lastResult = "ok"
    /\ lastValue = Null
    /\ lastLogs = <<>>

\* testAgent not started.
AgentIdle ==
    /\ pc = "start"
    /\ node = "none"
    /\ messages = <<>>
    /\ nextMsgId = 0
    /\ nextCallId = 0
    /\ agentSteps = 0
    /\ toolSteps = 0
    /\ script = <<>>
    /\ done = <<>>
    /\ input = <<>>
    /\ firstOutput = <<>>
    /\ exitCode = "none"

\* The plan of a chat client that is not scripted.
NoPlan == [always |-> FALSE, n |-> 0]

Init == MgrInit /\ AgentIdle /\ plan = NoPlan

Next ==
    \/ \E fail \in Failures : Initialize(fail)
    \/ \E fail \in Failures : Reinitialize(fail)
    \/ \E i \in 1..MaxPending : Settle(i)
    \/ TestConnection
    \/ \E outcome \in RemoteOutcomes : TestConnectionResume(outcome)
    \/ GetConfig
    \/ IsInitializedCall
    \/ GetChatModel
    \/ GetEmbeddings
    \/ GetTextSplitter

Spec == Init /\ [][Next]_vars

\* ---------------------------------------------------------------- agent graph
\* Messages: id 0 is a message that has no id yet; `calls` are the ids of the
\* tool calls an AI message requests and hasCalls tells whether the message
\* has a tool_calls field at all; callId is a tool message's tool_call_id.
HumanMessage(text) ==
    [id |-> 0, type |-> "human", calls |-> <<>>, hasCalls |-> FALSE,
     content |-> text, callId |-> 0]

\* What the chat model may answer: a message without a tool_calls field, or one
\* with 0..MaxToolCalls tool calls.
Responses ==
    {[n |-> 0, defined |-> FALSE]} \cup {[n |-> k, defined |-> TRUE] : k \in 0..MaxToolCalls}

\* The AIMessage of answer resp, its tool calls numbered from `calls` on.
AIMessage(resp, calls) ==
    [id |-> 0, type |-> "ai", calls |-> [i \in 1..resp.n |-> calls + i],
     hasCalls |-> resp.defined,
     content |-> IF resp.n = 0 THEN "answer" ELSE "", callId |-> 0]

\* A message without its id.
Body(m) == [m EXCEPT !.id = 0]

\* Messages of ms that have no id yet.
Unnamed(ms) == Cardinality({i \in 1..Len(ms) : ms[i].id = 0})

\* Mutant of Merge: the channel keeps the last update instead of reducing it.
RECURSIVE MergeOverwrite(_, _, _)
MergeOverwrite(left, right, next) ==
    IF right = <<>> THEN <<>>
    ELSE LET m == IF Head(right).id = 0 THEN [Head(right) EXCEPT !.id = next + 1]
                  ELSE Head(right)
         IN <<m>> \o MergeOverwrite(left, Tail(right),
                                    IF Head(right).id = 0 THEN next + 1 ELSE next)

\* The reducer of the messages channel of MessagesAnnotation: each message of
\* the update gets an id if it has none (ids next+1, next+2, ...), replaces the
\* message of the same id if there is one, and is appended otherwise.
RECURSIVE Merge(_, _, _)
Merge(left, right, next) ==
    IF right = <<>> THEN left
    ELSE LET m == IF Head(right).id = 0 THEN [Head(right) EXCEPT !.id = next + 1]
                  ELSE Head(right)
             nx == IF Head(right).id = 0 THEN next + 1 ELSE next
             same == {i \in 1..Len(left) : left[i].id = m.id}
         IN IF same # {}
            THEN Merge([left EXCEPT ![CHOOSE i \in same : TRUE] = m], Tail(right), nx)
            ELSE Merge(Append(left, m), Tail(right), nx)

\* Mutant of InvokeState: the graph keeps the messages of its previous run and
\* puts the input after them.
InvokeStateRetained(in, next) == messages \o Merge(<<>>, in, next)

\* Mutant of InvokeState: only the newest message of the input is loaded.
InvokeStateLastOnly(in, next) == Merge(<<>>, <<in[Len(in)]>>, next)

\* app.invoke({messages: in}): the input is reduced into the empty channel.
InvokeState(in, next) == Merge(<<>>, in, next)

\* Mutant of ShouldContinue: the loop is cut after two tools steps.
ShouldContinueCapped(ms) ==
    LET lastMessage == ms[Len(ms)] IN
    IF lastMessage.hasCalls /\ Len(lastMessage.calls) # 0 /\ toolSteps < 2
    THEN "tools" ELSE "__end__"

\* Mutant of ShouldContinue: any message of the history that requests tools counts.
ShouldContinueAnyMessage(ms) ==
    IF \E i \in 1..Len(ms) : ms[i].hasCalls /\ Len(ms[i].calls) # 0
    THEN "tools" ELSE "__end__"

\* shouldContinue: `lastMessage.tool_calls?.length` decides.
ShouldContinue(ms) ==
    LET lastMessage == ms[Len(ms)] IN
    IF lastMessage.hasCalls /\ Len(lastMessage.calls) # 0 THEN "tools" ELSE "__end__"

\* callModel's update: the model's answer alone.
CallModelUpdate(ms, resp, calls) == <<AIMessage(resp, calls)>>

\* The ToolMessage that answers tool call `call`.
ToolMessage(call) ==
    [id |-> 0, type |-> "tool", calls |-> <<>>, hasCalls |-> FALSE,
     content |-> "result", callId |-> call]

\* Mutant of ToolNodeUpdate: the tool results are not put into the update.
ToolNodeUpdateDropped(ms, order) == <<>>

\* Mutant of ToolNodeUpdate: the results are collected as the calls complete.
ToolNodeUpdateAsCompleted(ms, order) ==
    LET lastMessage == ms[Len(ms)] IN
    [k \in 1..Len(order) |-> ToolMessage(lastMessage.calls[order[k]])]

\* ToolNode's update: the tool calls of the last message are run together and
\* awaited as one; there is one tool message per call, in the order the calls
\* are listed, whatever the order `order` in which they completed.
ToolNodeUpdate(ms, order) ==
    LET lastMessage == ms[Len(ms)] IN
    [i \in 1..Len(lastMessage.calls) |-> ToolMessage(lastMessage.calls[i])]

\* addEdge("tools", "agent")
AfterTools == "agent"

\* addEdge("__start__", "agent")
AfterStart == "agent"

\* The first turn's input, and the second turn's from the first turn's output.
FirstInput == <<HumanMessage("What is the weather in Khulna?")>>
SecondInput(out) == out \o <<HumanMessage("What about Dhaka?")>>

Running == pc \in {"turn1", "turn2"}

\* Mutant of TestAgentCatch: the error is logged but not thrown again, so
\* testAgent returns and the process ends normally.
TestAgentCatchNoRethrow == [pc |-> "done", exitCode |-> "0", logs |-> <<"error">>]

\* What an error thrown inside testAgent's try block leads to: the catch logs
\* it and throws it again, main's catch calls process.exit(1).
TestAgentCatch == [pc |-> "failed", exitCode |-> "1", logs |-> <<"error">>]

\* testAgent up to `await this.modelManager.initialize()`; a failure is logged
\* and rethrown by testAgent's catch, and main exits with status 1.
TestAgentSetup(fail) ==
    /\ pc = "start"
    /\ LET r == InitializeOn(Manager, fail) IN
         /\ SetManager(r.m)
         /\ IF r.result = "ok"
            THEN /\ Report("initialize", fail, r.result, Null, r.logs)
                 /\ pc' = "setup"
                 /\ exitCode' = exitCode
            ELSE /\ Report("initialize", fail, r.result, Null,
                           r.logs \o TestAgentCatch.logs)
                 /\ pc' = TestAgentCatch.pc
                 /\ exitCode' = TestAgentCatch.exitCode
    /\ UNCHANGED <<plan, config, pending, probe, node, messages, nextMsgId, nextCallId, agentSteps,
                   toolSteps, script, done, input, firstOutput>>

\* getChatModel().bindTools(tools), the graph's construction and the first invoke.
InvokeFirst ==
    /\ pc = "setup"
    /\ LET r == GetChatModelOn(Manager) IN
         IF r.result = "ok"
         THEN /\ Report("getChatModel", "none", r.result, r.value, r.logs)
              /\ pc' = "turn1"
              /\ input' = FirstInput
              /\ messages' = InvokeState(FirstInput, nextMsgId)
              /\ nextMsgId' = nextMsgId + Unnamed(FirstInput)
              /\ node' = "__start__"
              /\ exitCode' = exitCode
         ELSE /\ Report("getChatModel", "none", r.result, r.value,
                        r.logs \o TestAgentCatch.logs)
              /\ pc' = TestAgentCatch.pc
              /\ exitCode' = TestAgentCatch.exitCode
              /\ UNCHANGED <<input, messages, nextMsgId, node>>
    /\ UNCHANGED <<plan, config, pending, initialized, chatModel, embeddings, textSplitter, nextId,
                   probe, nextCallId, agentSteps, toolSteps, script, done, firstOutput>>

StartEdge ==
    /\ Running
    /\ node = "__start__"
    /\ node' = AfterStart
    /\ UNCHANGED <<plan, mgrVars, pc, messages, nextMsgId, nextCallId, agentSteps, toolSteps,
                   script, done, input, firstOutput, exitCode>>

\* The agent node: callModel with the model answering resp, then shouldContinue.
AgentStep(resp) ==
    /\ Running
    /\ node = "agent"
    /\ messages' = Merge(messages, CallModelUpdate(messages, resp, nextCallId), nextMsgId)
    /\ nextMsgId' = nextMsgId + 1
    /\ nextCallId' = nextCallId + resp.n
    /\ node' = ShouldContinue(messages')
    /\ agentSteps' = agentSteps + 1
    /\ script' = Append(script, resp)
    /\ done' = <<>>
    /\ UNCHANGED <<plan, mgrVars, pc, toolSteps, input, firstOutput, exitCode>>

\* The agent node with a chat model that may answer anything.
CallModel(resp) ==
    /\ agentSteps < MaxAgentSteps
    /\ AgentStep(resp)

\* The agent node when model.invoke rejects: callModel has no try/catch and
\* nothing between it and testAgent's catch handles the error.
CallModelRejects ==
    /\ Running
    /\ node = "agent"
    /\ agentSteps < MaxAgentSteps
    /\ Report("callModel", "reject", "throw:node", Null, TestAgentCatch.logs)
    /\ pc' = TestAgentCatch.pc
    /\ exitCode' = TestAgentCatch.exitCode
    /\ UNCHANGED <<plan, config, pending, initialized, chatModel, embeddings, textSplitter, nextId,
                   probe, node, messages, nextMsgId, nextCallId, agentSteps, toolSteps,
                   script, done, input, firstOutput>>

\* The tools node when it rejects (an error of a tool that the node does not
\* turn into a tool message): it reaches testAgent's catch in the same way.
ToolNodeThrows ==
    /\ Running
    /\ node = "tools"
    /\ Report("toolNode", "reject", "throw:node", Null, TestAgentCatch.logs)
    /\ pc' = TestAgentCatch.pc
    /\ exitCode' = TestAgentCatch.exitCode
    /\ UNCHANGED <<plan, config, pending, initialized, chatModel, embeddings, textSplitter, nextId,
                   probe, node, messages, nextMsgId, nextCallId, agentSteps, toolSteps,
                   script, done, input, firstOutput>>

\* One of the tool calls the tools node dispatched completes.
ToolComplete(i) ==
    /\ Running
    /\ node = "tools"
    /\ i \in 1..Len(messages[Len(messages)].calls)
    /\ \A k \in 1..Len(done) : done[k] # i
    /\ done' = Append(done, i)
    /\ UNCHANGED <<plan, mgrVars, pc, node, messages, nextMsgId, nextCallId, agentSteps,
                   toolSteps, script, input, firstOutput, exitCode>>

\* The tools node returns once every call has completed.
ToolNodeJoin ==
    /\ Running
    /\ node = "tools"
    /\ Len(done) = Len(messages[Len(messages)].calls)
    /\ messages' = Merge(messages, ToolNodeUpdate(messages, done), nextMsgId)
    /\ nextMsgId' = nextMsgId + Len(messages[Len(messages)].calls)
    /\ node' = AfterTools
    /\ toolSteps' = toolSteps + 1
    /\ UNCHANGED <<plan, mgrVars, pc, nextCallId, agentSteps, script, done, input,
                   firstOutput, exitCode>>

\* The first invoke returned: its last message is printed and the second
\* invoke starts from its messages plus one new human message.
InvokeSecond ==
    /\ pc = "turn1"
    /\ node = "__end__"
    /\ firstOutput' = messages
    /\ input' = SecondInput(messages)
    /\ messages' = InvokeState(input', nextMsgId)
    /\ nextMsgId' = nextMsgId + Unnamed(input')
    /\ node' = "__start__"
    /\ pc' = "turn2"
    /\ agentSteps' = 0
    /\ toolSteps' = 0
    /\ script' = <<>>
    /\ done' = <<>>
    /\ UNCHANGED <<plan, mgrVars, nextCallId, exitCode>>

\* The second invoke returned: its last message is printed and testAgent returns.
Finish ==
    /\ pc = "turn2"
    /\ node = "__end__"
    /\ pc' = "done"
    /\ exitCode' = "0"
    /\ UNCHANGED <<plan, mgrVars, node, messages, nextMsgId, nextCallId, agentSteps,
                   toolSteps, script, done, input, firstOutput>>

AgentNext ==
    \/ \E fail \in Failures : TestAgentSetup(fail)
    \/ InvokeFirst
    \/ StartEdge
    \/ \E resp \in Responses : CallModel(resp)
    \/ CallModelRejects
    \/ ToolNodeThrows
    \/ \E i \in 1..MaxToolCalls : ToolComplete(i)
    \/ ToolNodeJoin
    \/ InvokeSecond
    \/ Finish

AgentSpec == Init /\ [][AgentNext]_vars

\* ---------------------------------------------------------------- scripted chat client
\* A scripted chat client: it requests one tool on each of its first n
\* invocations of a run and answers with plain content afterwards, or it
\* requests a tool on every invocation.
Plans ==
    {[always |-> TRUE, n |-> 0]} \cup {[always |-> FALSE, n |-> k] : k \in 0..MaxRounds}

\* Its answer to the k-th invocation of a run.
ScriptedAnswer(k) ==
    IF plan.always \/ k <= plan.n
    THEN [n |-> 1, defined |-> TRUE]
    ELSE [n |-> 0, defined |-> TRUE]

\* The agent node with the scripted client; the model follows the client that
\* never stops for MaxRounds + 2 invocations.
ScriptedCallModel ==
    /\ agentSteps < MaxRounds + 2
    /\ AgentStep(ScriptedAnswer(agentSteps + 1))

LoopInit == MgrInit /\ AgentIdle /\ plan \in Plans

LoopNext ==
    \/ \E fail \in Failures : TestAgentSetup(fail)
    \/ InvokeFirst
    \/ StartEdge
    \/ ScriptedCallModel
    \/ \E i \in 1..MaxToolCalls : ToolComplete(i)
    \/ ToolNodeJoin
    \/ InvokeSecond
    \/ Finish

\* The scripted client and the tools always answer, so a run that can take a
\* step takes one.
LoopSpec == LoopInit /\ [][LoopNext]_vars /\ WF_vars(LoopNext)

\* ---------------------------------------------------------------- manager claims
NotInitialized == "throw:ModelManager must be initialized before use"

\* The handle an accessor is for.
HandleOf(op) ==
    IF op = "getChatModel" THEN chatModel
    ELSE IF op = "getEmbeddings" THEN embeddings
    ELSE textSplitter

\* C1: after any sequence of calls, an accessor that has just run failed with
\* the not-initialized error if isInitialized() is false, and otherwise
\* succeeded and returned its non-null handle.
C1_AccessorsFollowFlag ==
    lastOp \in {"getChatModel", "getEmbeddings", "getTextSplitter"} =>
        IF ~IsInitialized
        THEN lastResult = NotInitialized
        ELSE lastResult = "ok" /\ lastValue # Null /\ lastValue = HandleOf(lastOp)

\* C1 witness: getChatModel() refused after a failed initialize() that left
\* the chat model set.
C1_Witness ==
    /\ lastOp = "getChatModel"
    /\ ~initialized
    /\ chatModel # Null
    /\ lastResult = NotInitialized

\* C2: initialize() on an initialized manager constructs nothing, leaves the
\* flag and the three handles as they were, logs a warning and returns.
C2_InitializeIdempotent ==
    [][(lastOp' = "initialize" /\ initialized) =>
          /\ initialized'
          /\ <<chatModel', embeddings', textSplitter'>> = <<chatModel, embeddings, textSplitter>>
          /\ nextId' = nextId
          /\ lastResult' = "ok"
          /\ lastLogs' = <<"warn">>]_vars

\* C2 witness: an initialize() that warned, on a manager holding its handles.
C2_Witness ==
    /\ lastOp = "initialize"
    /\ lastLogs = <<"warn">>
    /\ initialized
    /\ chatModel # Null /\ embeddings # Null /\ textSplitter # Null

\* C3: a reinitialize() that returns leaves three handles constructed during
\* the call, none of them a handle held (or ever constructed) before it.
C3_ReinitializeFresh ==
    [][(lastOp' = "reinitialize" /\ lastResult' = "ok") =>
          /\ initialized'
          /\ chatModel' > nextId /\ embeddings' > nextId /\ textSplitter' > nextId
          /\ chatModel' # chatModel /\ embeddings' # embeddings
          /\ textSplitter' # textSplitter
          /\ Cardinality({chatModel', embeddings', textSplitter'}) = 3]_vars

\* C3 witness: a reinitialize() that returned on a manager whose first three
\* handles (1, 2, 3) were valid.
C3_Witness ==
    /\ lastOp = "reinitialize"
    /\ lastResult = "ok"
    /\ <<chatModel, embeddings, textSplitter>> = <<4, 5, 6>>

\* C4: testConnection() never throws: it suspends only on the remote call and
\* returns a boolean, false when the manager is not initialized and false
\* when the remote call is rejected or answers without content.
C4_TestConnectionNeverThrows ==
    [][lastOp' = "testConnection" =>
          /\ lastResult' \in {"true", "false", "pending"}
          /\ lastResult' = "pending" => (probe = Null /\ probe' # Null)
          /\ (probe = Null /\ (~initialized \/ chatModel = Null)) => lastResult' = "false"
          /\ (probe # Null /\ lastInput' # "content") => lastResult' = "false"]_vars

\* C4 witness: a testConnection() whose remote call was rejected returned false.
C4_Witness ==
    /\ lastOp = "testConnection"
    /\ lastInput = "reject"
    /\ lastResult = "false"

\* C5: when a constructor throws inside initialize(), the failure is logged and
\* thrown to the caller, and the flag is false afterwards.
C5_FailedInitializeStaysUninitialized ==
    [][(lastOp' = "initialize" /\ ~initialized /\ lastInput' # "none") =>
          /\ lastResult' = "throw:construct"
          /\ lastLogs' = <<"error">>
          /\ ~initialized']_vars

\* C5 witness: initialize() failed at the last constructor.
C5_Witness ==
    /\ lastOp = "initialize"
    /\ lastInput = "splitter"
    /\ lastResult = "throw:construct"
    /\ ~initialized

\* C6: in every reachable state the three handles are all absent or all present.
C6_AllOrNothing ==
    \/ chatModel = Null /\ embeddings = Null /\ textSplitter = Null
    \/ chatModel # Null /\ embeddings # Null /\ textSplitter # Null

\* ---------------------------------------------------------------- agent claims
IsPrefix(p, q) == Len(p) <= Len(q) /\ \A i \in 1..Len(p) : q[i] = p[i]

RequestsTools(m) == Len(m.calls) >= 1

\* C7: the graph moves start -> agent; agent -> tools iff the last message
\* carries one or more tool calls; agent -> end iff it carries none; tools ->
\* agent; and nowhere else.  An agent step always takes one of its two edges,
\* decided by the last message alone.  (A step that keeps pc is a step of one run.)
C7_Transitions ==
    [][/\ (Running /\ pc' = pc /\ node' # node) =>
             \/ node = "__start__" /\ node' = "agent"
             \/ node = "agent" /\ node' = "tools" /\ RequestsTools(messages'[Len(messages')])
             \/ node = "agent" /\ node' = "__end__" /\ ~RequestsTools(messages'[Len(messages')])
             \/ node = "tools" /\ node' = "agent"
       /\ (node = "agent" /\ agentSteps' # agentSteps) =>
             node' = IF RequestsTools(messages'[Len(messages')]) THEN "tools" ELSE "__end__"
       /\ (node = "tools" /\ toolSteps' # toolSteps) => node' = "agent"]_vars

\* C7 witness: the run ended on a last message without tool calls although an
\* earlier message of the history carries tool calls.
C7_Witness ==
    /\ node = "__end__"
    /\ agentSteps >= 2
    /\ ~RequestsTools(messages[Len(messages)])
    /\ \E i \in 1..(Len(messages) - 1) : RequestsTools(messages[i])

\* The three messages a run adds for one tool call and then a plain answer.
OneToolRun(ms, from) ==
    /\ Len(ms) = from + 3
    /\ ms[from + 1].type = "ai" /\ RequestsTools(ms[from + 1])
    /\ ms[from + 2].type = "tool"
    /\ ms[from + 3].type = "ai" /\ ~RequestsTools(ms[from + 3])
    /\ ms[from + 3].content = "answer"

\* C8 as stated: a model answering a tool-call message and then a plain
\* message makes the run take one tools step and end with initial + 3
\* messages: the initial ones, the AI tool-call message, one tool result, the
\* final AI message.
C8_ScriptedRunAsClaimed ==
    (node = "__end__" /\ Len(script) = 2 /\ script[1].n >= 1 /\ script[2].n = 0) =>
        /\ toolSteps = 1
        /\ \A i \in 1..Len(input) : Body(messages[i]) = Body(input[i])
        /\ OneToolRun(messages, Len(input))

\* C8 amended: the same, for a first answer that carries exactly one tool call.
C8_ScriptedRun ==
    (node = "__end__" /\ Len(script) = 2 /\ script[1].n = 1 /\ script[2].n = 0) =>
        /\ toolSteps = 1
        /\ agentSteps = 2
        /\ \A i \in 1..Len(input) : Body(messages[i]) = Body(input[i])
        /\ OneToolRun(messages, Len(input))
        /\ messages[Len(input) + 2].callId = messages[Len(input) + 1].calls[1]

\* C8 witness: the first run ended after one tool call and a plain answer.
C8_Witness ==
    /\ pc = "turn1"
    /\ node = "__end__"
    /\ script = <<[n |-> 1, defined |-> TRUE], [n |-> 0, defined |-> TRUE]>>
    /\ Len(messages) = 4

\* C9: once the second invoke has been given the first invoke's output plus one
\* new human message, the conversation always starts with the first invoke's
\* whole output, unchanged, followed by the new human message.
C9_ContinuationKeepsPrefix ==
    pc \in {"turn2", "done"} =>
        /\ input = firstOutput \o <<HumanMessage("What about Dhaka?")>>
        /\ IsPrefix(firstOutput, messages)
        /\ Len(messages) > Len(firstOutput)
        /\ Body(messages[Len(firstOutput) + 1]) = HumanMessage("What about Dhaka?")
        /\ \A i \in (Len(firstOutput) + 2)..Len(messages) :
              messages[i].type \in {"ai", "tool"}

\* C9 witness: both runs are over, each having used a tool.
C9_Witness ==
    /\ pc = "done"
    /\ Len(firstOutput) >= 4
    /\ Len(messages) >= Len(firstOutput) + 4

\* C10: an agent step appends exactly the model's answer and a tools step
\* appends exactly one tool message per requested call; what was there before
\* stays as a prefix, and no step of a run shortens or rewrites the messages.
C10_AppendOnly ==
    [][/\ (node = "agent" /\ agentSteps' # agentSteps) =>
             /\ IsPrefix(messages, messages')
             /\ Len(messages') = Len(messages) + 1
             /\ messages'[Len(messages')].type = "ai"
       /\ (node = "tools" /\ toolSteps' # toolSteps) =>
             /\ IsPrefix(messages, messages')
             /\ Len(messages') = Len(messages) + Len(messages[Len(messages)].calls)
             /\ \A i \in (Len(messages) + 1)..Len(messages') : messages'[i].type = "tool"
       /\ (node \in {"__start__", "agent", "tools"}) => IsPrefix(messages, messages')]_vars

\* C10 witness: a run in which both nodes have acted more than once.
C10_Witness ==
    /\ agentSteps = 3
    /\ toolSteps = 2
    /\ Len(messages) >= Len(input) + 5

\* C11: a tools step appends one tool message per tool call of the message it
\* answers, the k-th appended message answering the k-th requested call,
\* whatever the order in which the calls completed.
C11_ResultsInRequestOrder ==
    [][(node = "tools" /\ toolSteps' # toolSteps) =>
          LET calls == messages[Len(messages)].calls IN
          /\ Len(messages') = Len(messages) + Len(calls)
          /\ \A k \in 1..Len(calls) :
                /\ messages'[Len(messages) + k].type = "tool"
                /\ messages'[Len(messages) + k].callId = calls[k]]_vars

\* C11 witness: a tools step over two calls, the second of which completed
\* first, has appended its two results.
C11_Witness ==
    /\ node = "agent"
    /\ toolSteps >= 1
    /\ done = <<2, 1>>
    /\ messages[Len(messages)].type = "tool"
    /\ messages[Len(messages) - 1].type = "tool"
    /\ messages[Len(messages) - 1].callId < messages[Len(messages)].callId

\* C12: when the agent node or the tools node fails, in either turn, the run
\* stops where it is (no message is added, no edge is taken), the error is
\* logged by testAgent and the process exits with status 1; after a failure
\* nothing more happens, so a failed first turn is never followed by a second.
C12_NodeFailureEndsProcess ==
    [][/\ (Running /\ lastOp' \in {"callModel", "toolNode"} /\ lastResult' = "throw:node") =>
             /\ pc' = "failed"
             /\ exitCode' = "1"
             /\ lastLogs' = <<"error">>
             /\ UNCHANGED <<node, messages, input, firstOutput>>
       /\ pc = "failed" => UNCHANGED agentVars
       /\ exitCode = "1" => pc = "failed"]_vars

\* C12 witness: the agent node failed in the first turn after a tools step;
\* the process has exited with status 1 and no second invoke was made.
C12_Witness ==
    /\ pc = "failed"
    /\ exitCode = "1"
    /\ lastOp = "callModel"
    /\ toolSteps >= 1
    /\ firstOutput = <<>>
    /\ input = FirstInput

\* What a message says, apart from the identifiers given to it.
Shape(m) == [type |-> m.type, n |-> Len(m.calls), content |-> m.content]
Shapes(ms) == [i \in 1..Len(ms) |-> Shape(ms[i])]

\* What a run adds for the answers `answers` of the model: each answer,
\* followed by one tool result for each tool call it requests.
RECURSIVE Added(_)
Added(answers) ==
    IF answers = <<>> THEN <<>>
    ELSE LET a == Head(answers) IN
         <<[type |-> "ai", n |-> a.n, content |-> IF a.n = 0 THEN "answer" ELSE ""]>>
         \o [k \in 1..a.n |-> [type |-> "tool", n |-> 0, content |-> "result"]]
         \o Added(Tail(answers))

\* C13: what an invocation returns is fixed by the messages it was given and
\* by what the model and the tools answered during it: the input followed by
\* what those answers add, in the first invocation of the compiled graph and
\* in the one made after it alike.
C13_OutputFromInputAndAnswers ==
    (Running /\ node = "__end__") =>
        Shapes(messages) = Shapes(input) \o Added(script)

\* C13 witness: the second invocation has returned, with answers other than
\* those of the first.
C13_Witness ==
    /\ pc = "turn2"
    /\ node = "__end__"
    /\ Len(firstOutput) = 2
    /\ Len(script) = 2
    /\ Len(messages) > Len(input) + 2

Accessors == {"getChatModel", "getEmbeddings", "getTextSplitter"}

\* The error an accessor raises for a missing handle.
MissingError(op) ==
    IF op = "getChatModel" THEN "throw:Chat model not initialized"
    ELSE IF op = "getEmbeddings" THEN "throw:Embeddings model not initialized"
    ELSE "throw:Text splitter not initialized"

\* C15: a reinitialize() in which a constructor throws fails with that error
\* and leaves the flag false; the fields then hold no handle that existed
\* before the call (all three are null when the first constructor throws), so
\* no accessor returns one.
C15_FailedReinitializeClears ==
    [][(lastOp' = "reinitialize" /\ lastInput' # "none") =>
          /\ lastResult' = "throw:construct"
          /\ lastLogs' = <<"error">>
          /\ ~initialized'
          /\ \A h \in {chatModel', embeddings', textSplitter'} : h = Null \/ h > nextId
          /\ lastInput' = "chat" =>
                (chatModel' = Null /\ embeddings' = Null /\ textSplitter' = Null)
          /\ GetChatModelOn(Manager').result = NotInitialized
          /\ GetEmbeddingsOn(Manager').result = NotInitialized
          /\ GetTextSplitterOn(Manager').result = NotInitialized]_vars

\* C15 witness: a reinitialize() whose first constructor threw, made while the
\* initialize() that built handles 1, 2 and 3 was still in flight.
C15_Witness ==
    /\ lastOp = "reinitialize"
    /\ lastResult = "throw:construct"
    /\ ~initialized
    /\ nextId = 3
    /\ chatModel = Null /\ embeddings = Null /\ textSplitter = Null
    /\ \E i \in 1..Len(pending) :
          pending[i].op = "initialize" /\ pending[i].result = "ok" /\ pending[i].built

\* C16: an accessor called with the flag false fails with the "manager not
\* initialized" error whether or not its handle is set, and raises its own
\* "handle missing" error only with the flag true and the handle absent; the
\* same holds of the accessor's body for every flag and handle.
C16_AccessorChecksInOrder ==
    /\ lastOp \in Accessors =>
          /\ ~initialized => lastResult = NotInitialized
          /\ lastResult = MissingError(lastOp) => (initialized /\ HandleOf(lastOp) = Null)
    /\ \A flag \in BOOLEAN, h \in {Null, 1}, op \in Accessors :
          Accessor([Manager EXCEPT !.initialized = flag], h, MissingError(op)).result
             = IF ~flag THEN NotInitialized
               ELSE IF h = Null THEN MissingError(op) ELSE "ok"

\* C16 witness: getEmbeddings() refused with the "manager not initialized"
\* error although a failed initialize() left the embeddings client set.
C16_Witness ==
    /\ lastOp = "getEmbeddings"
    /\ ~initialized
    /\ embeddings # Null
    /\ textSplitter = Null
    /\ lastResult = NotInitialized

\* C17: whenever the flag is true all three handles are non-null, and no
\* operation ends with one of the three "handle missing" errors.
C17_FlagImpliesHandles ==
    /\ initialized => (chatModel # Null /\ embeddings # Null /\ textSplitter # Null)
    /\ lastResult \notin {MissingError(op) : op \in Accessors}

\* C17 witness: an accessor succeeded on a manager initialized a second time.
C17_Witness ==
    /\ initialized
    /\ lastOp = "getTextSplitter"
    /\ lastResult = "ok"
    /\ lastValue = 6

\* C19: a step of testConnection(), getConfig(), isInitialized() or an
\* accessor leaves the flag, the three handles and the configuration as they
\* were, whatever its outcome; the configuration never changes.
C19_ReadersChangeNothing ==
    [][/\ lastOp' \in Accessors \cup {"testConnection", "getConfig", "isInitialized"} =>
             UNCHANGED <<initialized, chatModel, embeddings, textSplitter, config>>
       /\ <<initialized, chatModel, embeddings, textSplitter>>'
             # <<initialized, chatModel, embeddings, textSplitter>> =>
             lastOp' \in {"initialize", "reinitialize"}
       /\ config' = config]_vars

\* C19 witness: a testConnection() that failed on an empty answer has returned
\* and the manager is still initialized.
C19_Witness ==
    /\ lastOp = "testConnection"
    /\ lastInput = "empty"
    /\ lastResult = "false"
    /\ initialized
    /\ chatModel # Null

\* An initialize() or reinitialize() call of the given kind that constructed
\* successfully, whose caller has not resumed, and after which no other
\* initialize() or reinitialize() call was made.
InFlight(op) ==
    \E i \in 1..Len(pending) :
        pending[i].op = op /\ pending[i].result = "ok" /\ pending[i].latest

\* C18: callers interleave only where a call is suspended, and initialize()
\* and reinitialize() change the fields in one turn. So while a successful
\* initialize() or reinitialize() is in flight (and none was called after it)
\* the flag is true and the handles are set; a further initialize() made
\* meanwhile constructs nothing; and an accessor or a testConnection() made
\* while a successful reinitialize() is in flight finds the flag true and its
\* handle set.
C18_NoTornInitialization ==
    /\ [](InFlight("initialize") \/ InFlight("reinitialize") =>
             /\ initialized
             /\ chatModel # Null /\ embeddings # Null /\ textSplitter # Null)
    /\ [][/\ (InFlight("initialize") /\ lastOp' = "initialize") =>
                /\ nextId' = nextId
                /\ UNCHANGED <<initialized, chatModel, embeddings, textSplitter>>
                /\ lastResult' = "ok"
                /\ lastLogs' = <<"warn">>
                /\ ~pending'[Len(pending')].built
          /\ (InFlight("reinitialize") /\ lastOp' \in Accessors) =>
                /\ lastResult' = "ok"
                /\ lastValue' # Null
                /\ lastValue' > nextId - 3
          /\ (InFlight("reinitialize") /\ lastOp' = "testConnection" /\ probe = Null) =>
                /\ lastResult' = "pending"
                /\ probe' = chatModel
                /\ probe' # Null]_vars

\* C18 witness: two initialize() calls are in flight on a manager that was
\* uninitialized; the first constructed handles 1, 2 and 3, the second nothing.
C18_Witness ==
    /\ Len(pending) = 2
    /\ pending[1].op = "initialize" /\ pending[1].result = "ok" /\ pending[1].built
    /\ pending[2].op = "initialize" /\ pending[2].result = "ok" /\ ~pending[2].built
    /\ nextId = 3
    /\ initialized

====
